---------------------------- MODULE Spec2Model ----------------------------
(***************************************************************************)
(* Realtime Session & Command Protocol Layer of Parratech-Demo.            *)
(*                                                                         *)
(*   SpecNeg   - the session negotiator: GET /session of server.js         *)
(*   SpecReasm - the utterance reassembler: RealtimeClient.handleDataMessage*)
(*   SpecConn  - the realtime connection: connect / close / transport      *)
(*               events of RealtimeClient                                   *)
(*                                                                         *)
(* Text is a sequence of one-character strings, so that concatenation and  *)
(* trim are computed.  JS undefined / null are the sentinels below.        *)
(***************************************************************************)
EXTENDS Integers, Sequences, FiniteSets, TLC

VARIABLES
  \* ---- server.js -------------------------------------------------------
  OPENAI_API_KEY,           \* process.env.OPENAI_API_KEY ("" when unset)
  DEFAULT_REALTIME_MODELS,  \* the candidate list, built once at start-up
  fetchAvailable,           \* whether ensureFetch() finds a fetch implementation
  handler,                  \* position of the /session handler
  modelIndex,               \* position of the for..of loop in the candidate list
  attempts,                 \* the handler's local array of failed attempts
  responses,                \* what res.json() has sent for the request
  calls,                    \* the handshake requests the remote service received
  \* ---- realtime.ts: RealtimeClient -------------------------------------
  connectionState,          \* this.connectionState
  pc,                       \* this.pc: "null" or "set"
  pcState,                  \* the RTCPeerConnection's own connectionState
  dataChannel,              \* this.dataChannel: "null" or its readyState
  readyPromise,             \* this.readyPromise: "null", "pending", "resolved"
  resolveReady,             \* this.resolveReady is set
  tracks,                   \* the local audio capture tracks
  audioSrc,                 \* this.audioElement.srcObject is set
  remoteDescription,        \* the remote answer is applied to the transport
  connectPc,                \* where the connect() call stands
  speakPc,                  \* where the latest speak() call stands
  speakCalls,               \* the speak() calls made so far
  sent,                     \* the messages sent over the control channel
  speakText,                \* the text the latest speak() call was given
  speakAt,                  \* this.dataChannel when the latest speak() was called
  responseBuffers,          \* this.responseBuffers
  events,                   \* the 'text' events dispatched so far
  raised,                   \* an exception escaped handleDataMessage
  log,                      \* the frames delivered to dataChannel.onmessage
  \* ---- App.tsx: App (the voice-driven player) ---------------------------
  playlist,                 \* the playlist state: null, or the loaded steps
  loadingPlaylist,          \* the loadingPlaylist state
  currentIndex,             \* the currentIndex state
  isSessionActive,          \* the isSessionActive state
  isStarting,               \* the isStarting state
  sessionError,             \* the sessionError state is set
  transcripts,              \* the transcripts state
  clientRef,                \* clientRef.current: "null" or "set"
  clientListenerRef,        \* clientListenerRef.current: "null" or "set"
  listener,                 \* what the registered listener's closure captured
  startPc,                  \* where the handleStart() call stands
  video,                    \* the video element: its src and whether it plays
  effects,                  \* the side effects of the latest step of the player
  negotiations,             \* the GET /session requests issued so far
  clients,                  \* the RealtimeClient objects created so far
  \* ---- the command parser ---------------------------------------------
  parseText,                \* the argument of a parse() call
  parseResult               \* what the call returned, once it has

negVars == <<OPENAI_API_KEY, DEFAULT_REALTIME_MODELS, fetchAvailable, handler,
             modelIndex, attempts, responses, calls>>
connVars == <<connectionState, pc, pcState, dataChannel, readyPromise,
              resolveReady, tracks, audioSrc, remoteDescription, connectPc,
              speakPc, speakCalls, sent, speakText, speakAt>>
reasmVars == <<responseBuffers, events, raised, log>>
playVars == <<playlist, loadingPlaylist, currentIndex, isSessionActive, isStarting,
              sessionError, transcripts, clientRef, clientListenerRef, listener,
              startPc, video, effects, negotiations, clients>>
parseVars == <<parseText, parseResult>>
vars == <<negVars, connVars, reasmVars, playVars, parseVars>>

(***************************************************************************)
(* Bounds.                                                                 *)
(***************************************************************************)
MaxFallbacks == 2
MaxFrames == 4
MaxSpeaks == 2

(***************************************************************************)
(* JavaScript values.                                                      *)
(***************************************************************************)
Undefined == "<undefined>"
JsNull == "<null>"

Truthy(v) == v \notin {"", Undefined, JsNull}

\* Array.prototype.filter, given the predicate's value at each index
RECURSIVE KeepFrom(_, _, _)
KeepFrom(s, keep, i) ==
  IF i > Len(s) THEN <<>>
  ELSE (IF keep[i] THEN <<s[i]>> ELSE <<>>) \o KeepFrom(s, keep, i + 1)

(***************************************************************************)
(* server.js: the candidate list.                                          *)
(***************************************************************************)
BuiltinModels == <<"gpt-4o-realtime-preview-2024-12-17", "gpt-4o-realtime-preview">>

\* String.prototype.trim on the fallback entries the environment may hold.
Trim(s) ==
  CASE s = " " -> ""
    [] s = " m2 " -> "m2"
    [] OTHER -> s

\* process.env.OPENAI_REALTIME_MODEL || null
ConfiguredModels == {JsNull, "m1", "gpt-4o-realtime-preview"}
\* the entries of process.env.OPENAI_REALTIME_FALLBACKS.split(',')
FallbackEntries == {"", " m2 ", "m1"}
FallbackLists == UNION {[1..n -> FallbackEntries] : n \in 1..MaxFallbacks}

BuildModels(configured, fallbacks) ==
  LET raw == <<configured>> \o [i \in 1..Len(fallbacks) |-> Trim(fallbacks[i])]
               \o BuiltinModels
      mapped == [i \in 1..Len(raw) |-> IF Truthy(raw[i]) THEN raw[i] ELSE JsNull]
      keep == [i \in 1..Len(mapped) |->
                 Truthy(mapped[i]) /\ \A j \in 1..(i - 1) : mapped[j] # mapped[i]]
  IN  KeepFrom(mapped, keep, 1)

(***************************************************************************)
(* server.js: GET /session.                                                *)
(***************************************************************************)
Statuses == {400, 401, 404, 422, 500}
Details == {"", "model_not_found"}

\* what response.json() may yield on success: a session object with its model
\* field absent, empty or set, or a JSON value that is no object
Payload(object, model) == [object |-> object, model |-> model]
NoPayload == Payload(FALSE, Undefined)
Payloads == {Payload(TRUE, Undefined), Payload(TRUE, ""), Payload(TRUE, "srv-model"),
             NoPayload}

\* res.status(status).json({ error, details })
Body(status, error, details) ==
  [status |-> status, error |-> error, details |-> details, payload |-> NoPayload]

\* res.json(payload)
Json(payload) ==
  [status |-> 200, error |-> "", details |-> <<>>, payload |-> payload]

Tok(t, s, n) == [t |-> t, s |-> s, n |-> n]

TextDetail(s) == <<Tok("text", s, 0)>>

\* a retry policy that also retries a server error
ShouldRetryAlsoServerError(status) == status \in {400, 404, 422, 500}

ShouldRetry(status) == status = 404 \/ status = 422 \/ status = 400

AttemptParts(attempt) ==
  <<Tok("model", attempt.model, 0),
    IF attempt.status \in Nat THEN Tok("status", "", attempt.status)
    ELSE Tok("text", "unknown status", 0)>>
  \o (IF Truthy(attempt.detail) THEN <<Tok("detail", attempt.detail, 0)>> ELSE <<>>)

RECURSIVE JoinFrom(_, _)
JoinFrom(as, i) ==
  IF i > Len(as) THEN <<>>
  ELSE (IF i > 1 THEN <<Tok("sep", " | ", 0)>> ELSE <<>>)
       \o AttemptParts(as[i]) \o JoinFrom(as, i + 1)

\* a summary that keeps the last attempt only
attemptSummaryLastOnly(as) == AttemptParts(as[Len(as)])

attemptSummary(as) == JoinFrom(as, 1)

FailureBody(as) ==
  Body(500, "Failed to create realtime session",
       IF attemptSummary(as) # <<>> THEN attemptSummary(as)
       ELSE TextDetail("Unknown error while creating realtime session."))

\* a fill-in that overwrites the model the payload names
FillModelAlways(payload, model) == [payload EXCEPT !.model = model]

FillModel(payload, model) ==
  IF payload.object /\ ~Truthy(payload.model)
  THEN [payload EXCEPT !.model = model]
  ELSE payload

\* the guards without the credential check
GuardsSkipCredential(key, models) ==
  IF Len(models) = 0
  THEN <<Body(500, "Failed to create realtime session",
              TextDetail("No realtime model configured."))>>
  ELSE <<>>

\* the early returns of the handler: the response each sends, or none
Guards(key, models) ==
  IF ~Truthy(key)
  THEN <<Body(500, "Missing OPENAI_API_KEY on the server.", <<>>)>>
  ELSE IF Len(models) = 0
  THEN <<Body(500, "Failed to create realtime session",
              TextDetail("No realtime model configured."))>>
  ELSE <<>>

SessionRequest ==
  /\ handler = "idle"
  /\ LET early == Guards(OPENAI_API_KEY, DEFAULT_REALTIME_MODELS) IN
       IF early # <<>>
       THEN /\ responses' = responses \o early
            /\ handler' = "done"
            /\ UNCHANGED <<modelIndex, attempts>>
       ELSE /\ attempts' = <<>>
            /\ modelIndex' = 1
            /\ handler' = "awaiting"
            /\ UNCHANGED responses
  /\ UNCHANGED <<OPENAI_API_KEY, DEFAULT_REALTIME_MODELS, fetchAvailable, calls>>
  /\ UNCHANGED <<connVars, reasmVars, playVars, parseVars>>

\* createRealtimeSession resolves { ok: true, data }
AttemptOk ==
  /\ handler = "awaiting"
  /\ fetchAvailable
  /\ \E payload \in Payloads :
       LET model == DEFAULT_REALTIME_MODELS[modelIndex] IN
         /\ calls' = Append(calls, [model |-> model, outcome |-> "ok", status |-> 200,
                                    detail |-> "", payload |-> payload])
         /\ responses' = Append(responses, Json(FillModel(payload, model)))
  /\ handler' = "done"
  /\ UNCHANGED <<OPENAI_API_KEY, DEFAULT_REALTIME_MODELS, fetchAvailable,
                 modelIndex, attempts>>
  /\ UNCHANGED <<connVars, reasmVars, playVars, parseVars>>

\* createRealtimeSession resolves { ok: false, status, detail }
AttemptFail ==
  /\ handler = "awaiting"
  /\ fetchAvailable
  /\ \E status \in Statuses, detail \in Details :
       LET model == DEFAULT_REALTIME_MODELS[modelIndex]
           pushed == Append(attempts, [model |-> model, status |-> status,
                                       detail |-> detail])
       IN
         /\ calls' = Append(calls, [model |-> model, outcome |-> "fail",
                                    status |-> status, detail |-> detail,
                                    payload |-> NoPayload])
         /\ attempts' = pushed
         /\ IF ShouldRetry(status) /\ modelIndex < Len(DEFAULT_REALTIME_MODELS)
            THEN /\ modelIndex' = modelIndex + 1
                 /\ UNCHANGED <<handler, responses>>
            ELSE /\ responses' = Append(responses, FailureBody(pushed))
                 /\ handler' = "done"
                 /\ UNCHANGED modelIndex
  /\ UNCHANGED <<OPENAI_API_KEY, DEFAULT_REALTIME_MODELS, fetchAvailable>>
  /\ UNCHANGED <<connVars, reasmVars, playVars, parseVars>>

\* mutation of AttemptThrow: a request that fails at the transport is passed
\* over and the next candidate is tried
AttemptThrowContinues ==
  /\ handler = "awaiting"
  /\ IF fetchAvailable
     THEN calls' = Append(calls, [model |-> DEFAULT_REALTIME_MODELS[modelIndex],
                                  outcome |-> "throw", status |-> 0, detail |-> "",
                                  payload |-> NoPayload])
     ELSE UNCHANGED calls
  /\ IF fetchAvailable /\ modelIndex < Len(DEFAULT_REALTIME_MODELS)
     THEN /\ modelIndex' = modelIndex + 1
          /\ UNCHANGED <<handler, responses>>
     ELSE /\ responses' = Append(responses,
                                 Body(500, "Failed to contact OpenAI Realtime API",
                                      TextDetail("fetch failed")))
          /\ handler' = "done"
          /\ UNCHANGED modelIndex
  /\ UNCHANGED <<OPENAI_API_KEY, DEFAULT_REALTIME_MODELS, fetchAvailable, attempts>>
  /\ UNCHANGED <<connVars, reasmVars, playVars, parseVars>>

\* createRealtimeSession rejects: ensureFetch() finds no fetch (no request is
\* issued), or the request itself fails at the transport
AttemptThrow ==
  /\ handler = "awaiting"
  /\ IF fetchAvailable
     THEN calls' = Append(calls, [model |-> DEFAULT_REALTIME_MODELS[modelIndex],
                                  outcome |-> "throw", status |-> 0, detail |-> "",
                                  payload |-> NoPayload])
     ELSE UNCHANGED calls
  /\ responses' = Append(responses,
                         Body(500, "Failed to contact OpenAI Realtime API",
                              TextDetail(IF fetchAvailable THEN "fetch failed"
                                         ELSE "Fetch API is not available in this runtime.")))
  /\ handler' = "done"
  /\ UNCHANGED <<OPENAI_API_KEY, DEFAULT_REALTIME_MODELS, fetchAvailable,
                 modelIndex, attempts>>
  /\ UNCHANGED <<connVars, reasmVars, playVars, parseVars>>

(***************************************************************************)
(* realtime.ts: the utterance reassembler.                                 *)
(***************************************************************************)
Ids == {"u1", "u2"}
Whitespace == {" "}

\* the messages the control channel may deliver (event.data, parsed or not)
Frame(kind, id, delta) == [kind |-> kind, id |-> id, delta |-> delta]

Frames ==
  {Frame("delta", "u1", d) : d \in {<<"a">>, <<"b">>, <<" ">>, <<>>}}
  \cup {Frame("delta", "u2", <<"a">>), Frame("delta", Undefined, <<"a">>)}
  \cup {Frame("done", id, <<>>) : id \in Ids}
  \cup {Frame("completed", "u1", <<>>), Frame("completed", Undefined, <<>>)}
  \cup {Frame("unparsable", Undefined, <<>>),
        Frame("completedNullResponse", Undefined, <<>>)}

\* !text.trim()
IsBlank(text) == \A i \in 1..Len(text) : text[i] \in Whitespace

MapSet(m, k, v) == [x \in (DOMAIN m) \cup {k} |-> IF x = k THEN v ELSE m[x]]
MapDelete(m, k) == [x \in (DOMAIN m) \ {k} |-> m[x]]
MapHas(m, k) == k \in DOMAIN m

emitText(text, raw) ==
  IF IsBlank(text) THEN <<>> ELSE <<[text |-> text, raw |-> raw]>>

Outcome(buffers, emitted, threw) ==
  [buffers |-> buffers, emitted |-> emitted, threw |-> threw]

\* a fragment put in front of the buffered text
AppendDeltaReversed(existing, delta) == delta \o existing

\* existing + (delta ?? '')
AppendDelta(existing, delta) == existing \o delta

\* a completion that emits without a buffer entry
CompleteAlwaysEmits(buffers, id, data) ==
  IF Truthy(id)
  THEN Outcome(MapDelete(buffers, id),
               <<[text |-> IF MapHas(buffers, id) THEN buffers[id] ELSE <<>>,
                  raw |-> data]>>, FALSE)
  ELSE Outcome(buffers, <<>>, FALSE)

\* a completion that emits the text and leaves the buffer entry in place
CompleteKeepsEntry(buffers, id, data) ==
  IF Truthy(id) /\ MapHas(buffers, id)
  THEN Outcome(buffers, emitText(buffers[id], data), FALSE)
  ELSE Outcome(buffers, <<>>, FALSE)

\* the shared body of the done and completed branches
Complete(buffers, id, data) ==
  IF Truthy(id) /\ MapHas(buffers, id)
  THEN Outcome(MapDelete(buffers, id), emitText(buffers[id], data), FALSE)
  ELSE Outcome(buffers, <<>>, FALSE)

\* the try block of handleDataMessage
TryBlock(buffers, data) ==
  CASE data.kind = "unparsable" -> Outcome(buffers, <<>>, TRUE)
    [] data.kind = "delta" ->
         IF Truthy(data.id)
         THEN Outcome(MapSet(buffers, data.id,
                             AppendDelta(IF MapHas(buffers, data.id)
                                         THEN buffers[data.id] ELSE <<>>,
                                         data.delta)),
                      <<>>, FALSE)
         ELSE Outcome(buffers, <<>>, FALSE)
    [] data.kind = "done" -> Complete(buffers, data.id, data)
    [] data.kind = "completedNullResponse" -> Outcome(buffers, <<>>, TRUE)
    [] data.kind = "completed" -> Complete(buffers, data.id, data)
    [] OTHER -> Outcome(buffers, <<>>, FALSE)

\* the handler without its catch
handleDataMessageNoCatch(buffers, data) == TryBlock(buffers, data)

handleDataMessage(buffers, data) ==
  LET r == TryBlock(buffers, data) IN
    IF r.threw THEN Outcome(r.buffers, r.emitted, FALSE) ELSE r

\* dataChannel.onmessage
DataMessage ==
  /\ dataChannel = "open"
  /\ Len(log) < MaxFrames
  /\ \E data \in Frames :
       LET r == handleDataMessage(responseBuffers, data) IN
         /\ responseBuffers' = r.buffers
         /\ events' = events \o r.emitted
         /\ raised' = (raised \/ r.threw)
         /\ log' = Append(log, data)
  /\ UNCHANGED <<negVars, connVars, playVars, parseVars>>

(***************************************************************************)
(* realtime.ts: connect().  Each await is one step; the steps between two  *)
(* awaits run together.                                                    *)
(***************************************************************************)
speakVars == <<speakPc, speakCalls, sent, speakText, speakAt>>
connRest == <<pc, pcState, dataChannel, readyPromise, resolveReady, tracks, audioSrc,
              remoteDescription, speakVars>>

\* connect() from idle: up to the await of getUserMedia
Connect ==
  /\ connectPc = "none"
  /\ connectionState = "idle"
  /\ connectionState' = "connecting"
  /\ pc' = "set"
  /\ pcState' = "new"
  /\ connectPc' = "getUserMedia"
  /\ UNCHANGED <<dataChannel, readyPromise, resolveReady, tracks, audioSrc,
                 remoteDescription, speakVars>>
  /\ UNCHANGED <<negVars, reasmVars, playVars, parseVars>>

\* connect() when the state is not idle returns at once
ConnectNotIdle ==
  /\ connectPc \in {"none", "returned", "resolved", "rejected"}
  /\ connectionState # "idle"
  /\ connectPc' = "returned"
  /\ UNCHANGED <<connectionState, connRest>>
  /\ UNCHANGED <<negVars, reasmVars, playVars, parseVars>>

\* getUserMedia resolves: addTrack, the handlers, the data channel, the ready
\* promise, up to the await of createOffer.  addTrack throws on a closed
\* RTCPeerConnection, and the captured tracks stay live.
GetUserMediaResolve ==
  /\ connectPc = "getUserMedia"
  /\ IF pcState = "closed"
     THEN /\ tracks' = "unattached"
          /\ connectPc' = "rejected"
          /\ UNCHANGED <<dataChannel, readyPromise, resolveReady>>
     ELSE /\ tracks' = "attached"
          /\ dataChannel' = "connecting"
          /\ readyPromise' = "pending"
          /\ resolveReady' = TRUE
          /\ connectPc' = "createOffer"
  /\ UNCHANGED <<connectionState, pc, pcState, audioSrc, remoteDescription, speakVars>>
  /\ UNCHANGED <<negVars, reasmVars, playVars, parseVars>>

GetUserMediaReject ==
  /\ connectPc = "getUserMedia"
  /\ connectPc' = "rejected"
  /\ UNCHANGED <<connectionState, connRest>>
  /\ UNCHANGED <<negVars, reasmVars, playVars, parseVars>>

CreateOfferResolve ==
  /\ connectPc = "createOffer"
  /\ pcState # "closed"
  /\ connectPc' = "setLocalDescription"
  /\ UNCHANGED <<connectionState, connRest>>
  /\ UNCHANGED <<negVars, reasmVars, playVars, parseVars>>

CreateOfferReject ==
  /\ connectPc = "createOffer"
  /\ connectPc' = "rejected"
  /\ UNCHANGED <<connectionState, connRest>>
  /\ UNCHANGED <<negVars, reasmVars, playVars, parseVars>>

SetLocalDescriptionResolve ==
  /\ connectPc = "setLocalDescription"
  /\ pcState # "closed"
  /\ connectPc' = "fetch"
  /\ UNCHANGED <<connectionState, connRest>>
  /\ UNCHANGED <<negVars, reasmVars, playVars, parseVars>>

SetLocalDescriptionReject ==
  /\ connectPc = "setLocalDescription"
  /\ connectPc' = "rejected"
  /\ UNCHANGED <<connectionState, connRest>>
  /\ UNCHANGED <<negVars, reasmVars, playVars, parseVars>>

\* the signaling request answers with a success status: the answer is read and
\* setRemoteDescription awaited
FetchOk ==
  /\ connectPc = "fetch"
  /\ connectPc' = "setRemoteDescription"
  /\ UNCHANGED <<connectionState, connRest>>
  /\ UNCHANGED <<negVars, reasmVars, playVars, parseVars>>

\* the signaling request answers with a non-success status (the throw of
\* line 96), or fails at the network
FetchFail ==
  /\ connectPc = "fetch"
  /\ connectPc' = "rejected"
  /\ UNCHANGED <<connectionState, connRest>>
  /\ UNCHANGED <<negVars, reasmVars, playVars, parseVars>>

SetRemoteDescriptionResolve ==
  /\ connectPc = "setRemoteDescription"
  /\ pcState # "closed"
  /\ connectPc' = "resolved"
  /\ remoteDescription' = TRUE
  /\ UNCHANGED <<connectionState, pc, pcState, dataChannel, readyPromise, resolveReady,
                 tracks, audioSrc, speakVars>>
  /\ UNCHANGED <<negVars, reasmVars, playVars, parseVars>>

SetRemoteDescriptionReject ==
  /\ connectPc = "setRemoteDescription"
  /\ connectPc' = "rejected"
  /\ UNCHANGED <<connectionState, connRest>>
  /\ UNCHANGED <<negVars, reasmVars, playVars, parseVars>>

(***************************************************************************)
(* realtime.ts: the transport's events.                                    *)
(***************************************************************************)
\* the connectionState changes an RTCPeerConnection reports once both
\* descriptions are applied
TransportMoves ==
  {<<"new", "connecting">>, <<"connecting", "connected">>,
   <<"connecting", "failed">>, <<"connected", "disconnected">>,
   <<"connected", "failed">>, <<"disconnected", "connected">>,
   <<"disconnected", "failed">>}

\* the body of pc.onconnectionstatechange, given this.pc is set
OnStateChange(current, reported) ==
  IF reported = "connected" THEN "connected"
  ELSE IF reported \in {"failed", "closed", "disconnected"} THEN "closed"
  ELSE current

OnConnectionStateChange ==
  /\ remoteDescription
  /\ \E move \in TransportMoves :
       /\ pcState = move[1]
       /\ pcState' = move[2]
       /\ connectionState' = IF pc = "null" THEN connectionState
                             ELSE OnStateChange(connectionState, move[2])
  /\ UNCHANGED <<pc, dataChannel, readyPromise, resolveReady, tracks, audioSrc,
                 remoteDescription, connectPc, speakVars>>
  /\ UNCHANGED <<negVars, reasmVars, playVars, parseVars>>

\* dataChannel.onopen
DataChannelOpen ==
  /\ dataChannel = "connecting"
  /\ pcState = "connected"
  /\ dataChannel' = "open"
  /\ connectionState' = "connected"
  /\ IF resolveReady
     THEN readyPromise' = "resolved" /\ resolveReady' = FALSE
     ELSE UNCHANGED <<readyPromise, resolveReady>>
  /\ UNCHANGED <<pc, pcState, tracks, audioSrc, remoteDescription, connectPc, speakVars>>
  /\ UNCHANGED <<negVars, reasmVars, playVars, parseVars>>

\* pc.ontrack with a remote stream
OnTrack ==
  /\ remoteDescription
  /\ pcState # "closed"
  /\ audioSrc' = TRUE
  /\ UNCHANGED <<connectionState, pc, pcState, dataChannel, readyPromise,
                 resolveReady, tracks, remoteDescription, connectPc, speakVars>>
  /\ UNCHANGED <<negVars, reasmVars, playVars, parseVars>>

\* mutation of CloseCall: the control channel is left as it is
CloseKeepsChannel ==
  /\ connectionState' = "closed"
  /\ IF pc # "null"
     THEN /\ tracks' = IF tracks = "attached" THEN "stopped" ELSE tracks
          /\ pcState' = "closed"
          /\ pc' = "null"
     ELSE UNCHANGED <<tracks, pcState, pc>>
  /\ audioSrc' = FALSE
  /\ UNCHANGED <<dataChannel, readyPromise, resolveReady, remoteDescription,
                 connectPc, speakVars>>

\* close(), on the client's own fields
CloseCall ==
  /\ connectionState' = "closed"
  /\ dataChannel' = IF dataChannel # "null" /\ dataChannel # "closed"
                    THEN "closed" ELSE dataChannel
  /\ IF pc # "null"
     THEN /\ tracks' = IF tracks = "attached" THEN "stopped" ELSE tracks
          /\ pcState' = "closed"
          /\ pc' = "null"
     ELSE UNCHANGED <<tracks, pcState, pc>>
  /\ audioSrc' = FALSE
  /\ UNCHANGED <<readyPromise, resolveReady, remoteDescription, connectPc, speakVars>>

\* close()
Close ==
  /\ CloseCall
  /\ UNCHANGED <<negVars, reasmVars, playVars, parseVars>>

(***************************************************************************)
(* realtime.ts: speak().                                                   *)
(***************************************************************************)
SpeakTexts == {"", "line"}

\* mutation of SpeakBegin: a missing control channel is a silent return
SpeakBeginSilent(text, channel) ==
  IF ~Truthy(text) \/ channel = "null" THEN "noop" ELSE "waiting"

\* where speak(text) stands when it reaches its first await or leaves before it
SpeakBegin(text, channel) ==
  IF ~Truthy(text) THEN "noop"
  ELSE IF channel = "null" THEN "notReady"
  ELSE "waiting"

\* speak(text) up to its first await
Speak ==
  /\ speakPc # "waiting"
  /\ speakCalls < MaxSpeaks
  /\ speakCalls' = speakCalls + 1
  /\ \E text \in SpeakTexts :
       /\ speakText' = text
       /\ speakPc' = SpeakBegin(text, dataChannel)
  /\ speakAt' = dataChannel
  /\ UNCHANGED <<connectionState, pc, pcState, dataChannel, readyPromise,
                 resolveReady, tracks, audioSrc, remoteDescription, connectPc, sent>>
  /\ UNCHANGED <<negVars, reasmVars, playVars, parseVars>>

\* mutation of SpeakSend: the message goes out without the wait for the
\* ready promise
SpeakSendWithoutWaiting ==
  /\ speakPc = "waiting"
  /\ sent' = sent + 1
  /\ speakPc' = "sent"
  /\ UNCHANGED <<connectionState, pc, pcState, dataChannel, readyPromise,
                 resolveReady, tracks, audioSrc, remoteDescription, connectPc,
                 speakCalls, speakText, speakAt>>
  /\ UNCHANGED <<negVars, reasmVars, playVars, parseVars>>

\* the ready promise is resolved and speak() goes on to dataChannel.send, which
\* throws unless the channel is open
SpeakSend ==
  /\ speakPc = "waiting"
  /\ readyPromise = "resolved"
  /\ IF dataChannel = "open"
     THEN sent' = sent + 1 /\ speakPc' = "sent"
     ELSE sent' = sent /\ speakPc' = "sendThrew"
  /\ UNCHANGED <<connectionState, pc, pcState, dataChannel, readyPromise,
                 resolveReady, tracks, audioSrc, remoteDescription, connectPc,
                 speakCalls, speakText, speakAt>>
  /\ UNCHANGED <<negVars, reasmVars, playVars, parseVars>>

(***************************************************************************)
(* The command parser: parse().  A text is the sequence of its characters. *)
(***************************************************************************)
MaxChunks == 3

LowerCase == <<"a", "b", "c", "d", "e", "f", "g", "h", "i", "j", "k", "l", "m",
               "n", "o", "p", "q", "r", "s", "t", "u", "v", "w", "x", "y", "z">>
UpperCase == <<"A", "B", "C", "D", "E", "F", "G", "H", "I", "J", "K", "L", "M",
               "N", "O", "P", "Q", "R", "S", "T", "U", "V", "W", "X", "Y", "Z">>

\* the position of character c in alphabet letters, 0 when it is not in it
PositionIn(letters, c) ==
  IF \E i \in 1..Len(letters) : letters[i] = c
  THEN CHOOSE i \in 1..Len(letters) : letters[i] = c
  ELSE 0

\* the upper-case and lower-case forms of the letters, and of any character
Letters == {LowerCase[i] : i \in 1..Len(LowerCase)} \cup {UpperCase[i] : i \in 1..Len(UpperCase)}
UpperTable ==
  [c \in Letters |-> IF PositionIn(LowerCase, c) > 0
                     THEN UpperCase[PositionIn(LowerCase, c)] ELSE c]
LowerTable ==
  [c \in Letters |-> IF PositionIn(UpperCase, c) > 0
                     THEN LowerCase[PositionIn(UpperCase, c)] ELSE c]
UpperOf(c) == IF c \in Letters THEN UpperTable[c] ELSE c
LowerOf(c) == IF c \in Letters THEN LowerTable[c] ELSE c

\* String.prototype.toUpperCase that changes nothing
toUpperCaseNone(s) == s

\* String.prototype.toUpperCase and toLowerCase
toUpperCase(s) == [i \in 1..Len(s) |-> UpperOf(s[i])]
toLowerCase(s) == [i \in 1..Len(s) |-> LowerOf(s[i])]

\* String.prototype.trim that removes nothing
trimNone(s) == s

\* String.prototype.trim
RECURSIVE trimStart(_)
trimStart(s) ==
  IF s # <<>> /\ s[1] \in Whitespace THEN trimStart(Tail(s)) ELSE s
RECURSIVE trimEnd(_)
trimEnd(s) ==
  IF s # <<>> /\ s[Len(s)] \in Whitespace THEN trimEnd(SubSeq(s, 1, Len(s) - 1)) ELSE s
trim(s) == trimEnd(trimStart(s))

\* the literal characters of the three patterns
NEXT_REGEX == <<"[", "S", "H", "O", "W", ":", "N", "E", "X", "T", "]">>
REPLAY_REGEX == <<"[", "R", "E", "P", "L", "A", "Y", "]">>
SHOW_REGEX == <<"[", "S", "H", "O", "W", ":">>

\* the characters of a literal matched at position i under the i flag
LiteralAt(s, literal, i) ==
  /\ i + Len(literal) - 1 <= Len(s)
  /\ \A k \in 1..Len(literal) : UpperOf(s[i + k - 1]) = UpperOf(literal[k])

\* RegExp.prototype.test of a literal pattern
Test(literal, s) == \E i \in 1..Len(s) : LiteralAt(s, literal, i)

\* the position of the ] that ends a match of SHOW_REGEX begun at i: the
\* first ] after the prefix, with at least one character before it; 0 when
\* the pattern does not match at i
ShowEndsAt(s, i) ==
  LET from == i + Len(SHOW_REGEX)
      closing == {k \in from..Len(s) : s[k] = "]"}
  IN IF LiteralAt(s, SHOW_REGEX, i) /\ closing # {}
     THEN LET k == CHOOSE k \in closing : \A j \in closing : k <= j
          IN IF k > from THEN k ELSE 0
     ELSE 0

\* text.match(SHOW_REGEX): the capture group of the leftmost match
Match(s) ==
  LET starts == {i \in 1..Len(s) : ShowEndsAt(s, i) > 0} IN
    IF starts = {} THEN [found |-> FALSE, group |-> <<>>]
    ELSE LET i == CHOOSE i \in starts : \A j \in starts : i <= j
         IN [found |-> TRUE,
             group |-> SubSeq(s, i + Len(SHOW_REGEX), ShowEndsAt(s, i) - 1)]

\* a CommandAction, and the null parse() returns
Command(action, id) == [action |-> action, id |-> id]
NoCommand == Command("none", <<>>)

\* parse() with the replay pattern tested before the next pattern
parseReplayFirst(s) ==
  IF s = <<>> THEN NoCommand
  ELSE IF Test(REPLAY_REGEX, s) THEN Command("REPLAY", <<>>)
  ELSE IF Test(NEXT_REGEX, s) THEN Command("NEXT", <<>>)
  ELSE LET match == Match(s) IN
         IF match.found /\ match.group # <<>>
         THEN LET id == trim(match.group) IN
                IF Len(id) > 0
                THEN IF toUpperCase(id) = <<"N", "E", "X", "T">>
                     THEN Command("NEXT", <<>>)
                     ELSE Command("SHOW", id)
                ELSE NoCommand
         ELSE NoCommand

parse(s) ==
  IF s = <<>> THEN NoCommand
  ELSE IF Test(NEXT_REGEX, s) THEN Command("NEXT", <<>>)
  ELSE IF Test(REPLAY_REGEX, s) THEN Command("REPLAY", <<>>)
  ELSE LET match == Match(s) IN
         IF match.found /\ match.group # <<>>
         THEN LET id == trim(match.group) IN
                IF Len(id) > 0
                THEN IF toUpperCase(id) = <<"N", "E", "X", "T">>
                     THEN Command("NEXT", <<>>)
                     ELSE Command("SHOW", id)
                ELSE NoCommand
         ELSE NoCommand

\* the pieces the texts given to parse() are put together from
Chunks ==
  {<<"[", "S", "H", "O", "W", ":", "N", "E", "X", "T", "]">>,
   <<"[", "s", "h", "o", "w", ":", "N", "e", "x", "t", "]">>,
   <<"[", "R", "E", "P", "L", "A", "Y", "]">>,
   <<"[", "r", "e", "P", "l", "a", "y", "]">>,
   <<"[", "S", "H", "O", "W", ":">>,
   <<"[", "s", "h", "o", "w", ":", " ">>,
   <<"]">>, <<" ", "]">>, <<" ">>, <<"[">>,
   <<"n", "e", "x", "t">>, <<"N", "e", "X", "t">>,
   <<"S", "2">>, <<"z", "z">>,
   <<"S", "H", "O", "W", ":", "N", "E", "X", "T">>,
   <<"R", "E", "P", "L", "A", "Y">>}

RECURSIVE TextsOf(_)
TextsOf(n) ==
  IF n = 0 THEN {<<>>}
  ELSE TextsOf(n - 1) \cup {t \o c : t \in TextsOf(n - 1), c \in Chunks}

Texts == TextsOf(MaxChunks)

\* a call of parse() that has not returned
Unparsed == Command("unparsed", <<>>)

\* one call of parse()
Parse ==
  /\ parseResult = Unparsed
  /\ parseResult' = parse(parseText)
  /\ UNCHANGED parseText
  /\ UNCHANGED <<negVars, connVars, reasmVars, playVars>>

(***************************************************************************)
(* App.tsx: the voice-driven player (lines 490-968).                       *)
(***************************************************************************)
MaxStarts == 2
MaxTranscripts == 2

\* a PlaylistItem of types.ts
Step(id, src, line) == [id |-> id, src |-> src, line |-> line]

ThreeSteps ==
  <<Step(<<"s", "1">>, "v1", "l1"), Step(<<"s", "2">>, "v2", "l2"),
    Step(<<"s", "3">>, "v3", "l3")>>

\* what /content/playlist.<lang>.json may hold
Playlists == {<<>>, ThreeSteps}

\* the playlist state: null, or a Playlist whose steps are in .playlist
NoPlaylist == [state |-> "null", playlist |-> <<>>]
Loaded(steps) == [state |-> "set", playlist |-> steps]

\* playlist.playlist[index] is an item
HasItem(list, index) == index >= 0 /\ index < Len(list.playlist)

\* Math.min and Math.max
MathMin(a, b) == IF a < b THEN a ELSE b
MathMax(a, b) == IF a > b THEN a ELSE b

\* the side effects of one step of the player: the handler that ran, the
\* video.load() calls it caused and the lines it passed to speak()
Ran(op) == [op |-> op, loads |-> 0, spoke |-> <<>>]

\* mutation of IndexEffect: the step's line is never spoken
IndexEffectSilent(list, index, active, ref, vid, fx) ==
  IF list.state = "null" \/ ~HasItem(list, index)
  THEN [video |-> vid, effects |-> fx]
  ELSE [video |-> [src |-> list.playlist[index + 1].src, playing |-> active],
        effects |-> [fx EXCEPT !.loads = @ + 1]]

\* mutation of IndexEffect: the line spoken is always the first step's
IndexEffectFirstLine(list, index, active, ref, vid, fx) ==
  IF list.state = "null" \/ ~HasItem(list, index)
  THEN [video |-> vid, effects |-> fx]
  ELSE [video |-> [src |-> list.playlist[index + 1].src, playing |-> active],
        effects |-> [fx EXCEPT !.loads = @ + 1,
                               !.spoke = IF active /\ ref = "set"
                                         THEN Append(@, list.playlist[1].line)
                                         ELSE @]]

\* the effect on [currentIndex, isSessionActive, playlist]: the step's media is
\* loaded, played when the session is active, and its line is spoken when the
\* session is active and a client is held
IndexEffect(list, index, active, ref, vid, fx) ==
  IF list.state = "null" \/ ~HasItem(list, index)
  THEN [video |-> vid, effects |-> fx]
  ELSE LET item == list.playlist[index + 1] IN
         [video |-> [src |-> item.src, playing |-> active],
          effects |-> [fx EXCEPT !.loads = @ + 1,
                                 !.spoke = IF active /\ ref = "set"
                                           THEN Append(@, item.line)
                                           ELSE @]]

\* mutation of Commit: the effect runs whether or not a dependency changed
CommitAlwaysRuns(list, index, active, ref, vid, fx) ==
  LET out == IndexEffect(list, index, active, ref, vid, fx)
  IN /\ playlist' = list
     /\ currentIndex' = index
     /\ isSessionActive' = active
     /\ clientRef' = ref
     /\ video' = out.video
     /\ effects' = out.effects

\* the state updates of one handler are committed together, and the effect
\* runs when one of its dependencies changed
Commit(list, index, active, ref, vid, fx) ==
  LET ran == <<list, index, active>> # <<playlist, currentIndex, isSessionActive>>
      out == IF ran THEN IndexEffect(list, index, active, ref, vid, fx)
             ELSE [video |-> vid, effects |-> fx]
  IN /\ playlist' = list
     /\ currentIndex' = index
     /\ isSessionActive' = active
     /\ clientRef' = ref
     /\ video' = out.video
     /\ effects' = out.effects

\* the playlist request of the mount effect answers
PlaylistLoaded ==
  /\ loadingPlaylist
  /\ loadingPlaylist' = FALSE
  /\ \E data \in Playlists :
       Commit(Loaded(data), 0, isSessionActive, clientRef, video, Ran("PlaylistLoaded"))
  /\ UNCHANGED <<isStarting, sessionError, transcripts, clientListenerRef, listener,
                 startPc, negotiations, clients>>
  /\ UNCHANGED <<negVars, connVars, reasmVars, parseVars>>

\* the playlist request fails
PlaylistFailed ==
  /\ loadingPlaylist
  /\ loadingPlaylist' = FALSE
  /\ Commit(NoPlaylist, currentIndex, isSessionActive, clientRef, video, Ran("PlaylistFailed"))
  /\ UNCHANGED <<isStarting, sessionError, transcripts, clientListenerRef, listener,
                 startPc, negotiations, clients>>
  /\ UNCHANGED <<negVars, connVars, reasmVars, parseVars>>

\* mutation of NextIndex: the index wraps to the first step
NextIndexWraps(prev, length) == IF prev + 1 > length - 1 THEN 0 ELSE prev + 1

\* the updater of handleNext
NextIndex(prev, length) == MathMin(prev + 1, length - 1)

\* the updater of handlePrev
PrevIndex(prev) == MathMax(prev - 1, 0)

\* handleNext, given the playlist its closure holds
AfterNext(list, index) ==
  IF list.state = "null" THEN index ELSE NextIndex(index, Len(list.playlist))

\* handlePrev
AfterPrev(list, index) ==
  IF list.state = "null" THEN index ELSE PrevIndex(index)

playRest == <<loadingPlaylist, isStarting, sessionError, transcripts,
              clientListenerRef, listener, startPc, negotiations, clients>>

handleNext ==
  /\ Commit(playlist, AfterNext(playlist, currentIndex), isSessionActive, clientRef,
            video, Ran("handleNext"))
  /\ UNCHANGED playRest
  /\ UNCHANGED <<negVars, connVars, reasmVars, parseVars>>

handlePrev ==
  /\ Commit(playlist, AfterPrev(playlist, currentIndex), isSessionActive, clientRef,
            video, Ran("handlePrev"))
  /\ UNCHANGED playRest
  /\ UNCHANGED <<negVars, connVars, reasmVars, parseVars>>

\* video.play(), which rejects on an element without a source
Played(vid) == [vid EXCEPT !.playing = (vid.src # "none")]

\* video.pause()
Paused(vid) == [vid EXCEPT !.playing = FALSE]

\* mutation of Replayed: the line is spoken whether or not a session is active
ReplayedWhenInactive(list, index, active, ref, vid, fx) ==
  IF list.state = "null" THEN [video |-> vid, effects |-> fx]
  ELSE [video |-> Played(vid),
        effects |-> IF HasItem(list, index)
                    THEN [fx EXCEPT !.spoke = Append(@, list.playlist[index + 1].line)]
                    ELSE fx]

\* handleReplay, given the values its closure holds
Replayed(list, index, active, ref, vid, fx) ==
  IF list.state = "null" THEN [video |-> vid, effects |-> fx]
  ELSE [video |-> Played(vid),
        effects |-> IF HasItem(list, index) /\ active /\ ref = "set"
                    THEN [fx EXCEPT !.spoke = Append(@, list.playlist[index + 1].line)]
                    ELSE fx]

handleReplay ==
  /\ LET out == Replayed(playlist, currentIndex, isSessionActive, clientRef, video,
                         Ran("handleReplay"))
     IN Commit(playlist, currentIndex, isSessionActive, clientRef, out.video,
               out.effects)
  /\ UNCHANGED playRest
  /\ UNCHANGED <<negVars, connVars, reasmVars, parseVars>>

\* clientRef.current.close() when a client is held; audio.srcObject = null
\* in either case
DropClient ==
  IF clientRef = "set"
  THEN CloseCall
  ELSE /\ audioSrc' = FALSE
       /\ UNCHANGED <<connectionState, pc, pcState, dataChannel, readyPromise,
                      resolveReady, tracks, remoteDescription, connectPc, speakVars>>

handleStop ==
  /\ DropClient
  /\ clientListenerRef' = IF clientRef = "set" THEN "null" ELSE clientListenerRef
  /\ transcripts' = <<>>
  /\ Commit(playlist, 0, FALSE, "null", Paused(video), Ran("handleStop"))
  /\ UNCHANGED <<loadingPlaylist, isStarting, sessionError, listener, startPc,
                 negotiations, clients>>
  /\ UNCHANGED <<negVars, reasmVars, parseVars>>

\* mutation of StartAccepted: the in-progress flag is not looked at
StartAcceptedWhileStarting == playlist.state # "null" /\ ~isSessionActive

\* the guard of handleStart (the audio element is mounted with the component)
StartAccepted == playlist.state # "null" /\ ~isSessionActive /\ ~isStarting

\* the values the closure of one render holds
Closure == [playlist |-> playlist, currentIndex |-> currentIndex,
            isSessionActive |-> isSessionActive]

\* handleStart up to the await of the session request; the listener it will
\* register calls the handleCommand of the render the call was made in
handleStart ==
  /\ negotiations < MaxStarts
  /\ IF StartAccepted
     THEN /\ isStarting' = TRUE
          /\ sessionError' = FALSE
          /\ startPc' = "session"
          /\ negotiations' = negotiations + 1
          /\ listener' = Closure
     ELSE UNCHANGED <<isStarting, sessionError, startPc, negotiations, listener>>
  /\ Commit(playlist, currentIndex, isSessionActive, clientRef, video, Ran("handleStart"))
  /\ UNCHANGED <<loadingPlaylist, transcripts, clientListenerRef, clients>>
  /\ UNCHANGED <<negVars, connVars, reasmVars, parseVars>>

\* createRealtimeClient: a new RealtimeClient on the audio element, and its
\* connect() up to the await of getUserMedia
createRealtimeClient ==
  /\ connectionState' = "connecting"
  /\ pc' = "set"
  /\ pcState' = "new"
  /\ dataChannel' = "null"
  /\ readyPromise' = "null"
  /\ resolveReady' = FALSE
  /\ tracks' = "none"
  /\ remoteDescription' = FALSE
  /\ connectPc' = "getUserMedia"
  /\ speakPc' = "none"
  /\ speakCalls' = 0
  /\ sent' = 0
  /\ speakText' = Undefined
  /\ speakAt' = "null"
  /\ UNCHANGED audioSrc

\* the session request answers with a descriptor
SessionCreated ==
  /\ startPc = "session"
  /\ startPc' = "connect"
  /\ clients' = clients + 1
  /\ createRealtimeClient
  /\ Commit(playlist, currentIndex, isSessionActive, clientRef, video, Ran("SessionCreated"))
  /\ UNCHANGED <<loadingPlaylist, isStarting, sessionError, transcripts,
                 clientListenerRef, listener, negotiations>>
  /\ UNCHANGED <<negVars, reasmVars, parseVars>>

\* mutation of StartCatch: the in-progress flag is left set
StartCatchKeepsStarting(op) ==
  /\ sessionError' = TRUE
  /\ IF clientRef = "set"
     THEN CloseCall
     ELSE UNCHANGED connVars
  /\ clientListenerRef' = IF clientRef = "set" THEN "null" ELSE clientListenerRef
  /\ isStarting' = isStarting
  /\ startPc' = "none"
  /\ Commit(playlist, currentIndex, isSessionActive, "null", video, Ran(op))
  /\ UNCHANGED <<loadingPlaylist, transcripts, listener, negotiations, clients>>
  /\ UNCHANGED <<negVars, reasmVars, parseVars>>

\* the catch and the finally of handleStart
StartCatch(op) ==
  /\ sessionError' = TRUE
  /\ IF clientRef = "set"
     THEN CloseCall
     ELSE UNCHANGED connVars
  /\ clientListenerRef' = IF clientRef = "set" THEN "null" ELSE clientListenerRef
  /\ isStarting' = FALSE
  /\ startPc' = "none"
  /\ Commit(playlist, currentIndex, isSessionActive, "null", video, Ran(op))
  /\ UNCHANGED <<loadingPlaylist, transcripts, listener, negotiations, clients>>
  /\ UNCHANGED <<negVars, reasmVars, parseVars>>

\* the session request fails, or answers with an error
SessionFailed ==
  /\ startPc = "session"
  /\ StartCatch("SessionFailed")

\* connect() rejects
ConnectFailed ==
  /\ startPc = "connect"
  /\ connectPc = "rejected"
  /\ StartCatch("ConnectFailed")

System(text) == [role |-> "system", text |-> text]
Trainer(text) == [role |-> "trainer", text |-> text]

\* connect() resolves: the listener is registered, the client kept, the
\* session marked active and the index reset
ConnectSucceeded ==
  /\ startPc = "connect"
  /\ connectPc = "resolved"
  /\ clientListenerRef' = "set"
  /\ transcripts' = <<System(<<"Session initialised. Ready to deliver the induction script.">>)>>
  /\ isStarting' = FALSE
  /\ startPc' = "none"
  /\ Commit(playlist, 0, TRUE, "set", video, Ran("ConnectSucceeded"))
  /\ UNCHANGED <<loadingPlaylist, sessionError, listener, negotiations, clients>>
  /\ UNCHANGED <<negVars, connVars, reasmVars, parseVars>>

\* mutation of onEnded: the index advances whether or not a session is active
onEndedAlways ==
  /\ video.playing
  /\ Commit(playlist, AfterNext(playlist, currentIndex), isSessionActive, clientRef,
            Paused(video), Ran("onEndedAlways"))
  /\ UNCHANGED playRest
  /\ UNCHANGED <<negVars, connVars, reasmVars, parseVars>>

\* the 'ended' listener of the video element
onEnded ==
  /\ video.playing
  /\ Commit(playlist,
            IF isSessionActive THEN AfterNext(playlist, currentIndex) ELSE currentIndex,
            isSessionActive, clientRef, Paused(video), Ran("onEnded"))
  /\ UNCHANGED playRest
  /\ UNCHANGED <<negVars, connVars, reasmVars, parseVars>>

\* Array.prototype.findIndex with the comparison of handleShowById
RECURSIVE FindFrom(_, _, _)
FindFrom(steps, id, i) ==
  IF i > Len(steps) THEN -1
  ELSE IF toLowerCase(steps[i].id) = toLowerCase(id) THEN i - 1
  ELSE FindFrom(steps, id, i + 1)

\* the utterances the trainer may complete
Utterances ==
  {<<"z", "z">>,
   <<"[", "S", "H", "O", "W", ":", "N", "E", "X", "T", "]">>,
   <<"[", "r", "e", "p", "l", "a", "y", "]">>,
   <<"[", "S", "H", "O", "W", ":", "S", "2", "]">>,
   <<"[", "S", "H", "O", "W", ":", "z", "z", "]">>}

\* handleCommand, given the closure c it was created in, the index the state
\* holds, the client reference and the video element
handleCommand(command, c, index, ref, vid, fx) ==
  LET same == [index |-> index, log |-> <<>>, video |-> vid, effects |-> fx] IN
    IF c.playlist.state = "null" \/ ~c.isSessionActive THEN same
    ELSE IF command.action = "NEXT"
    THEN IF c.currentIndex + 1 < Len(c.playlist.playlist)
         THEN [same EXCEPT !.log = <<System(<<"Advancing to the next clip as requested.">>)>>,
                           !.index = AfterNext(c.playlist, index)]
         ELSE [same EXCEPT !.log = <<System(<<"Already at the final clip.">>)>>]
    ELSE IF command.action = "REPLAY"
    THEN LET out == Replayed(c.playlist, c.currentIndex, c.isSessionActive, ref, vid,
                             fx)
         IN [same EXCEPT !.log = <<System(<<"Replaying the current clip.">>)>>,
                         !.video = out.video, !.effects = out.effects]
    ELSE IF command.action = "SHOW"
    THEN LET found == FindFrom(c.playlist.playlist, command.id, 1) IN
           IF found = -1
           THEN [same EXCEPT !.log = <<System(<<"Clip ">> \o command.id
                                             \o <<" is not part of the current playlist.">>)>>]
           ELSE [same EXCEPT !.log = <<System(<<"Switching to clip ">>
                                             \o c.playlist.playlist[found + 1].id
                                             \o <<".">>)>>,
                             !.index = found]
    ELSE same

\* the 'text' listener registered by handleStart
TextEvent ==
  /\ clientListenerRef = "set"
  /\ dataChannel = "open"
  /\ Len(transcripts) < MaxTranscripts
  /\ \E utterance \in Utterances :
       LET parsed == parse(utterance)
           out == IF parsed = NoCommand
                  THEN [index |-> currentIndex, log |-> <<>>, video |-> video,
                        effects |-> Ran("TextEvent")]
                  ELSE handleCommand(parsed, listener, currentIndex, clientRef, video,
                                     Ran("TextEvent"))
       IN
         /\ transcripts' = Append(transcripts, Trainer(utterance)) \o out.log
         /\ Commit(playlist, out.index, isSessionActive, clientRef, out.video,
                   out.effects)
  /\ UNCHANGED <<loadingPlaylist, isStarting, sessionError, clientListenerRef,
                 listener, startPc, negotiations, clients>>
  /\ UNCHANGED <<negVars, connVars, reasmVars, parseVars>>

\* the disabled attributes of the buttons
isFirstStep == currentIndex = 0
isLastStep ==
  IF playlist.state # "null" THEN currentIndex >= Len(playlist.playlist) - 1 ELSE TRUE
StartDisabled ==
  playlist.state = "null" \/ isSessionActive \/ isStarting \/ loadingPlaylist
StopDisabled == ~isSessionActive
PrevDisabled == ~isSessionActive \/ isFirstStep
ReplayDisabled == ~isSessionActive
NextDisabled == ~isSessionActive \/ isLastStep

\* mutation of ClickNext: the Next button is disabled at the last step only
ClickNextWhileInactive == ~isLastStep /\ handleNext

\* the clicks the page lets through
ClickStart == ~StartDisabled /\ handleStart
ClickStop == ~StopDisabled /\ handleStop
ClickPrev == ~PrevDisabled /\ handlePrev
ClickReplay == ~ReplayDisabled /\ handleReplay
ClickNext == ~NextDisabled /\ handleNext

(***************************************************************************)
(* Specifications.                                                         *)
(***************************************************************************)
NegAtRest ==
  /\ handler = "idle"
  /\ modelIndex = 0
  /\ attempts = <<>>
  /\ responses = <<>>
  /\ calls = <<>>

ClientNew ==
  /\ connectionState = "idle"
  /\ pc = "null"
  /\ pcState = "none"
  /\ dataChannel = "null"
  /\ readyPromise = "null"
  /\ resolveReady = FALSE
  /\ tracks = "none"
  /\ audioSrc = FALSE
  /\ remoteDescription = FALSE
  /\ connectPc = "none"
  /\ speakPc = "none"
  /\ speakCalls = 0
  /\ sent = 0
  /\ speakText = Undefined
  /\ speakAt = "null"

ReasmEmpty ==
  /\ responseBuffers = <<>>
  /\ events = <<>>
  /\ raised = FALSE
  /\ log = <<>>

\* no parse() call under way
NothingParsed ==
  /\ parseText = <<>>
  /\ parseResult = NoCommand

\* the component after its first render and its mount effects: the playlist
\* request is in flight
AppMounted ==
  /\ playlist = NoPlaylist
  /\ loadingPlaylist = TRUE
  /\ currentIndex = 0
  /\ isSessionActive = FALSE
  /\ isStarting = FALSE
  /\ sessionError = FALSE
  /\ transcripts = <<>>
  /\ clientRef = "null"
  /\ clientListenerRef = "null"
  /\ listener = [playlist |-> NoPlaylist, currentIndex |-> 0, isSessionActive |-> FALSE]
  /\ startPc = "none"
  /\ video = [src |-> "none", playing |-> FALSE]
  /\ effects = Ran("mount")
  /\ negotiations = 0
  /\ clients = 0

\* the server process after start-up, in each environment
InitNeg ==
  /\ OPENAI_API_KEY \in {"", "sk-key"}
  /\ \E configured \in ConfiguredModels, fallbacks \in FallbackLists :
       DEFAULT_REALTIME_MODELS = BuildModels(configured, fallbacks)
  /\ fetchAvailable \in BOOLEAN
  /\ NegAtRest
  /\ ClientNew
  /\ ReasmEmpty
  /\ AppMounted
  /\ NothingParsed

NextNeg == SessionRequest \/ AttemptOk \/ AttemptFail \/ AttemptThrow

SpecNeg == InitNeg /\ [][NextNeg]_vars

ServerDefault ==
  /\ OPENAI_API_KEY = "sk-key"
  /\ DEFAULT_REALTIME_MODELS = BuildModels(JsNull, <<"">>)
  /\ fetchAvailable = TRUE
  /\ NegAtRest

\* a client just constructed
InitConn ==
  /\ ServerDefault
  /\ ClientNew
  /\ ReasmEmpty
  /\ AppMounted
  /\ NothingParsed

NextConn ==
  \/ Connect \/ ConnectNotIdle
  \/ GetUserMediaResolve \/ GetUserMediaReject
  \/ CreateOfferResolve \/ CreateOfferReject
  \/ SetLocalDescriptionResolve \/ SetLocalDescriptionReject
  \/ FetchOk \/ FetchFail
  \/ SetRemoteDescriptionResolve \/ SetRemoteDescriptionReject
  \/ OnConnectionStateChange \/ DataChannelOpen \/ OnTrack
  \/ Speak \/ SpeakSend
  \/ Close

SpecConn == InitConn /\ [][NextConn]_vars

\* the continuation of a suspended speak() runs once the ready promise is
\* resolved, and the continuation of connect() once the awaited call settles
SpecConnFair ==
  /\ SpecConn
  /\ WF_vars(SpeakSend)
  /\ WF_vars(GetUserMediaResolve \/ GetUserMediaReject)
  /\ WF_vars(CreateOfferResolve \/ CreateOfferReject)
  /\ WF_vars(SetLocalDescriptionResolve \/ SetLocalDescriptionReject)
  /\ WF_vars(FetchOk \/ FetchFail)
  /\ WF_vars(SetRemoteDescriptionResolve \/ SetRemoteDescriptionReject)

\* a client whose connect() resolved and whose control channel reported open,
\* the transport connected or since reported disconnected
InitReasm ==
  /\ ServerDefault
  /\ \E st \in {<<"connected", "connected">>, <<"closed", "disconnected">>} :
       connectionState = st[1] /\ pcState = st[2]
  /\ pc = "set"
  /\ dataChannel = "open"
  /\ readyPromise = "resolved"
  /\ resolveReady = FALSE
  /\ tracks = "attached"
  /\ audioSrc = TRUE
  /\ remoteDescription = TRUE
  /\ connectPc = "resolved"
  /\ speakPc = "none"
  /\ speakCalls = 0
  /\ sent = 0
  /\ speakText = Undefined
  /\ speakAt = "null"
  /\ ReasmEmpty
  /\ AppMounted
  /\ NothingParsed

NextReasm == DataMessage

SpecReasm == InitReasm /\ [][NextReasm]_vars

\* a text handed to parse()
InitParse ==
  /\ ServerDefault
  /\ ClientNew
  /\ ReasmEmpty
  /\ AppMounted
  /\ parseText \in Texts
  /\ parseResult = Unparsed

NextParse == Parse

SpecParse == InitParse /\ [][NextParse]_vars

\* the page just mounted, no client created yet
InitPlay ==
  /\ ServerDefault
  /\ ClientNew
  /\ ReasmEmpty
  /\ AppMounted
  /\ NothingParsed

\* what the browser and the remote service do to the client being connected
ClientEvents ==
  \/ GetUserMediaResolve \/ GetUserMediaReject
  \/ CreateOfferResolve \/ CreateOfferReject
  \/ SetLocalDescriptionResolve \/ SetLocalDescriptionReject
  \/ FetchOk \/ FetchFail
  \/ SetRemoteDescriptionResolve \/ SetRemoteDescriptionReject
  \/ OnConnectionStateChange \/ DataChannelOpen \/ OnTrack

StartSteps ==
  \/ SessionCreated \/ SessionFailed \/ ConnectSucceeded \/ ConnectFailed

\* the player as the page lets it be driven: a disabled button passes no click
NextPlay ==
  \/ PlaylistLoaded \/ PlaylistFailed
  \/ ClickStart \/ ClickStop \/ ClickPrev \/ ClickReplay \/ ClickNext
  \/ StartSteps \/ onEnded \/ TextEvent
  \/ ClientEvents

SpecPlay == InitPlay /\ [][NextPlay]_vars

\* the handlers called in any state
NextHandlers ==
  \/ PlaylistLoaded \/ PlaylistFailed
  \/ handleStart \/ handleStop \/ handlePrev \/ handleReplay \/ handleNext
  \/ StartSteps \/ onEnded \/ TextEvent
  \/ ClientEvents

SpecHandlers == InitPlay /\ [][NextHandlers]_vars

(***************************************************************************)
(* Session negotiation (SpecNeg).                                          *)
(***************************************************************************)
RetryEligible == {400, 404, 422}

FailedWith(c, set) == c.outcome = "fail" /\ c.status \in set

\* C1: the handshake requests follow the candidate list in order, none is
\* repeated, request k is issued only after every earlier one failed with 400,
\* 404 or 422, and a failure with any other status is the last request
C1_OrderedRetry ==
  /\ Len(calls) <= Len(DEFAULT_REALTIME_MODELS)
  /\ \A k \in 1..Len(calls) :
       /\ calls[k].model = DEFAULT_REALTIME_MODELS[k]
       /\ \A j \in 1..(k - 1) :
            /\ calls[j].model # calls[k].model
            /\ FailedWith(calls[j], RetryEligible)
       /\ FailedWith(calls[k], Statuses \ RetryEligible)
            => k = Len(calls) /\ handler = "done"

C1_Witness ==
  /\ handler = "done"
  /\ Len(calls) = 3
  /\ FailedWith(calls[1], {404})
  /\ FailedWith(calls[2], {422})
  /\ FailedWith(calls[3], {401})
  /\ Len(DEFAULT_REALTIME_MODELS) > 3

\* the remote payload names a model
NamesModel(payload) == payload.model \notin {Undefined, ""}

\* C2: a successful handshake is the last one issued and is answered at once
\* with the remote payload; the descriptor returned has the payload's own model
\* when the payload names one and the succeeding candidate's otherwise (a
\* payload that is no object is no descriptor and is returned as it is)
C2_SuccessReturnsModel ==
  \A k \in 1..Len(calls) :
    calls[k].outcome = "ok" =>
      /\ k = Len(calls)
      /\ handler = "done"
      /\ Len(responses) = 1
      /\ responses[1].status = 200
      /\ responses[1].payload.object = calls[k].payload.object
      /\ responses[1].payload.model =
           IF ~calls[k].payload.object \/ NamesModel(calls[k].payload)
           THEN calls[k].payload.model
           ELSE DEFAULT_REALTIME_MODELS[k]

C2_Witness ==
  /\ Len(calls) = 2
  /\ calls[2].outcome = "ok"
  /\ calls[2].payload = Payload(TRUE, Undefined)
  /\ responses = <<Json(Payload(TRUE, DEFAULT_REALTIME_MODELS[2]))>>
  /\ Len(DEFAULT_REALTIME_MODELS) > 2

\* the positions of the model tokens of a diagnostic, and the i-th of them
ModelPositions(d) == {p \in 1..Len(d) : d[p].t = "model"}

NthModelPosition(d, i) ==
  CHOOSE p \in ModelPositions(d) :
    Cardinality({q \in ModelPositions(d) : q <= p}) = i

\* the diagnostic d lists the requests cs in order, each with status and detail
ListsEvery(d, cs) ==
  /\ Cardinality(ModelPositions(d)) = Len(cs)
  /\ \A i \in 1..Len(cs) :
       LET p == NthModelPosition(d, i) IN
         /\ d[p].s = cs[i].model
         /\ p + 1 <= Len(d)
         /\ d[p + 1].t = "status"
         /\ d[p + 1].n = cs[i].status
         /\ cs[i].detail # "" =>
              /\ p + 2 <= Len(d)
              /\ d[p + 2].t = "detail"
              /\ d[p + 2].s = cs[i].detail

NoSuccess == \A k \in 1..Len(calls) : calls[k].outcome # "ok"
NoException == \A k \in 1..Len(calls) : calls[k].outcome # "throw"

\* C3 as stated: whenever negotiation ends without a success, the error sent
\* lists every attempted model with its status and detail
C3_AsStated ==
  (handler = "done" /\ NoSuccess /\ calls # <<>>) =>
    /\ Len(responses) = 1
    /\ responses[1].status = 500
    /\ ListsEvery(responses[1].details, calls)

\* C3 amended: when negotiation ends without a success and every attempt
\* returned a status, the error sent lists every attempted model, in attempt
\* order, each with its status and its detail
C3_AggregatedDiagnostic ==
  (handler = "done" /\ NoSuccess /\ NoException /\ calls # <<>>) =>
    /\ Len(responses) = 1
    /\ responses[1].status = 500
    /\ responses[1].error = "Failed to create realtime session"
    /\ ListsEvery(responses[1].details, calls)

C3_Witness ==
  /\ handler = "done"
  /\ Len(calls) = 3
  /\ FailedWith(calls[1], {404}) /\ calls[1].detail # ""
  /\ FailedWith(calls[2], {400}) /\ calls[2].detail = ""
  /\ FailedWith(calls[3], {500}) /\ calls[3].detail # ""
  /\ Len(responses) = 1

\* C4: with no credential, or with an empty candidate list, the request is
\* answered with a structured error and no handshake request is issued
C4_FailFast ==
  (handler = "done" /\ (~Truthy(OPENAI_API_KEY) \/ Len(DEFAULT_REALTIME_MODELS) = 0)) =>
    /\ calls = <<>>
    /\ Len(responses) = 1
    /\ responses[1].status = 500
    /\ responses[1].error # ""
    /\ (Truthy(OPENAI_API_KEY) =>
          responses[1].details = TextDetail("No realtime model configured."))

C4_Witness ==
  /\ handler = "done"
  /\ ~Truthy(OPENAI_API_KEY)
  /\ calls = <<>>
  /\ responses = <<Body(500, "Missing OPENAI_API_KEY on the server.", <<>>)>>

(***************************************************************************)
(* Utterance reassembly (SpecReasm).                                       *)
(***************************************************************************)
IsCompletion(f) == f.kind \in {"done", "completed"}
IsMalformed(f) == f.kind \in {"unparsable", "completedNullResponse"}

\* the frame a step delivers
Delivered == log'[Len(log')]
Delivers == Len(log') = Len(log) + 1

\* the fragments received for id since its last completion signal, in arrival
\* order, and whether there is any
RECURSIVE Pending(_, _)
Pending(l, id) ==
  IF l = <<>> THEN <<>>
  ELSE LET f == l[Len(l)]
           before == SubSeq(l, 1, Len(l) - 1)
       IN  IF IsCompletion(f) /\ f.id = id THEN <<>>
           ELSE IF f.kind = "delta" /\ f.id = id THEN Pending(before, id) \o f.delta
           ELSE Pending(before, id)

RECURSIVE HasPending(_, _)
HasPending(l, id) ==
  IF l = <<>> THEN FALSE
  ELSE LET f == l[Len(l)]
           before == SubSeq(l, 1, Len(l) - 1)
       IN  IF IsCompletion(f) /\ f.id = id THEN FALSE
           ELSE IF f.kind = "delta" /\ f.id = id THEN TRUE
           ELSE HasPending(before, id)

CompletesPending ==
  /\ Delivers
  /\ IsCompletion(Delivered)
  /\ Delivered.id \in Ids
  /\ HasPending(log, Delivered.id)

\* C5 as stated: a completion signal after fragments f1..fn always produces
\* exactly one text event carrying f1+...+fn and removes the buffer entry
C5_AsStated ==
  [][CompletesPending =>
       /\ events' = Append(events, [text |-> Pending(log, Delivered.id),
                                    raw |-> Delivered])
       /\ ~MapHas(responseBuffers', Delivered.id)]_vars

\* C5 amended: a completion signal after fragments f1..fn removes the buffer
\* entry and produces exactly one text event carrying f1+...+fn in arrival
\* order when that text has a non-whitespace character, and no event otherwise
C5_CompletionEmitsConcatenation ==
  [][CompletesPending =>
       /\ events' = IF IsBlank(Pending(log, Delivered.id)) THEN events
                    ELSE Append(events, [text |-> Pending(log, Delivered.id),
                                         raw |-> Delivered])
       /\ ~MapHas(responseBuffers', Delivered.id)]_vars

C5_Witness ==
  /\ log = <<Frame("delta", "u1", <<"a">>), Frame("delta", "u2", <<"a">>),
             Frame("delta", "u1", <<"b">>), Frame("completed", "u1", <<>>)>>
  /\ events = <<[text |-> <<"a", "b">>, raw |-> Frame("completed", "u1", <<>>)]>>
  /\ DOMAIN responseBuffers = {"u2"}

EventsFor(id) == {i \in 1..Len(events) : events[i].raw.id = id}

\* C6: no utterance identifier ever has two text events
C6_AtMostOncePerId == \A id \in Ids : Cardinality(EventsFor(id)) <= 1

\* C7: a completion signal for an id without a buffer entry emits nothing and
\* leaves the buffers as they are
C7_UnknownCompletionNoOp ==
  [][(Delivers /\ IsCompletion(Delivered)
        /\ ~MapHas(responseBuffers, Delivered.id)) =>
       /\ events' = events
       /\ responseBuffers' = responseBuffers]_vars

C7_Witness ==
  /\ log = <<Frame("delta", "u1", <<"a">>), Frame("done", "u2", <<>>)>>
  /\ events = <<>>
  /\ DOMAIN responseBuffers = {"u1"}

\* C8: a malformed frame raises nothing, emits nothing and leaves the buffers
\* and the connection state alone; whatever frames came before, the buffers hold
\* exactly the fragments of the well-formed ones
C8_MalformedDropped ==
  [][Delivers =>
       /\ ~raised'
       /\ IsMalformed(Delivered) =>
            UNCHANGED <<events, responseBuffers, connectionState>>
       /\ \A id \in Ids :
            /\ MapHas(responseBuffers', id) <=> HasPending(log', id)
            /\ MapHas(responseBuffers', id) =>
                 responseBuffers'[id] = Pending(log', id)]_vars

C8_Witness ==
  /\ log = <<Frame("delta", "u1", <<"a">>), Frame("unparsable", Undefined, <<>>),
             Frame("delta", "u1", <<"b">>), Frame("done", "u1", <<>>)>>
  /\ events = <<[text |-> <<"a", "b">>, raw |-> Frame("done", "u1", <<>>)]>>
  /\ ~raised

(***************************************************************************)
(* Connection state (SpecConn).                                            *)
(***************************************************************************)
\* C9: closed is never left, and connected is entered only from connecting
C9_ClosedTerminal ==
  [][/\ connectionState = "closed" => connectionState' = "closed"
     /\ (connectionState' = "connected" /\ connectionState # "connected")
          => connectionState = "connecting"]_vars

\* C10: a connect() that failed leaves the state closed
C10_FailedConnectIsClosed ==
  connectPc = "rejected" => connectionState = "closed"

(***************************************************************************)
(* speak() and close().                                                    *)
(***************************************************************************)
\* a step in which speak() is called
SpeakCalled == speakCalls' = speakCalls + 1

\* a step in which speak() is called with a non-empty text
SpeakCalledWithText == SpeakCalled /\ Truthy(speakText')

\* close() has been called on the client: only close() clears this.pc, and
\* only connect() from idle, which close() rules out, sets it
CloseCalled == connectionState = "closed" /\ pc = "null"

\* C11: a speak() with a non-empty text that is called while the control
\* channel exists and has not reported open is suspended and sends nothing;
\* a message goes out only in a state where the channel has reported open
\* (the ready promise is resolved and the channel is open); and the open event
\* resolves the ready promise a suspended call is waiting for.
C11_SendsOnlyAfterOpen ==
  [][ /\ (SpeakCalledWithText /\ dataChannel = "connecting")
           => (speakPc' = "waiting" /\ sent' = sent)
      /\ (sent' # sent)
           => (readyPromise = "resolved" /\ dataChannel = "open" /\ sent' = sent + 1)
      /\ (speakPc = "waiting" /\ dataChannel = "connecting" /\ dataChannel' = "open")
           => (readyPromise' = "resolved" /\ speakPc' = "waiting") ]_vars

\* a call made before the channel opened has sent its message
C11_Witness == speakAt = "connecting" /\ Truthy(speakText) /\ speakPc = "sent" /\ sent = 1

\* C12: a speak() with a non-empty text that is called while this.dataChannel is
\* not set fails at once as not ready and sends nothing.
C12_AbsentChannelNotReady ==
  [][ (SpeakCalledWithText /\ dataChannel = "null")
         => (speakPc' = "notReady" /\ sent' = sent) ]_vars

C12_Witness == speakAt = "null" /\ Truthy(speakText) /\ speakPc = "notReady" /\ sent = 0

\* a step in which a speak() call completes successfully
SpeakSucceeds ==
  \/ SpeakCalled /\ speakPc' = "noop"
  \/ speakPc = "waiting" /\ speakPc' = "sent"

\* C13 as stated: once close() has been called no speak() call completes
\* successfully and no message is sent.
C13_AsStated == [][ CloseCalled => (~SpeakSucceeds /\ sent' = sent) ]_vars

\* C13: once close() has been called no message is sent, a speak() call with a
\* non-empty text fails as not ready or is suspended, and a suspended call
\* ends only with the exception of dataChannel.send.
C13_NoSendAfterClose ==
  [][ CloseCalled =>
        /\ sent' = sent
        /\ SpeakCalledWithText => speakPc' \in {"notReady", "waiting"}
        /\ (speakPc = "waiting" /\ speakPc' # "waiting") => speakPc' = "sendThrew" ]_vars

\* a call that was suspended when close() was called has failed at the send
C13_Witness ==
  /\ CloseCalled
  /\ speakAt \in {"connecting", "open"}
  /\ speakPc = "sendThrew"
  /\ Truthy(speakText)

\* what a close() call is said to leave behind
Released ==
  /\ connectionState = "closed"
  /\ pc = "null"
  /\ pcState \in {"none", "closed"}
  /\ dataChannel \in {"null", "closed"}
  /\ tracks \in {"none", "stopped"}
  /\ audioSrc = FALSE

\* C14: from every state a close() call leaves the state closed, the transport
\* and the control channel released, no local capture track live and the audio
\* element without a source, and a close() call after the first changes
\* nothing.  A close() call that changes nothing leaves what it found, so the
\* state it is made in has to be released already.
C14_CloseIdempotent ==
  /\ [][ Close => (Released' /\ (CloseCalled => UNCHANGED vars)) ]_vars
  /\ [](CloseCalled => Released)

(***************************************************************************)
(* The player.                                                             *)
(***************************************************************************)
\* a playlist with at least one step is loaded
HasSteps == playlist.state # "null" /\ Len(playlist.playlist) > 0
LastIndex == Len(playlist.playlist) - 1

\* C15: with a playlist of at least one step loaded, currentIndex stays within
\* [0, length - 1] whatever handlers, media events and directives run, and a
\* move forward (next, media ended) never lowers the index and a move back
\* never raises it: the ends clamp, they do not wrap.
C15_IndexInRange ==
  /\ [](HasSteps => (currentIndex >= 0 /\ currentIndex <= LastIndex))
  /\ [][ (HasSteps /\ (handleNext \/ onEnded)) => currentIndex' >= currentIndex ]_vars
  /\ [][ (HasSteps /\ handlePrev) => currentIndex' <= currentIndex ]_vars

\* next() has run at the last step and the index is still the last one
C15_Witness ==
  /\ HasSteps
  /\ currentIndex = LastIndex
  /\ effects.op = "handleNext"
  /\ effects.loads = 0

C17_EdgeMovesAreNoOps ==
  [][ (HasSteps /\ ( (handleNext /\ currentIndex = LastIndex)
                     \/ (handlePrev /\ currentIndex = 0) ))
        => /\ currentIndex' = currentIndex
           /\ effects'.loads = 0
           /\ effects'.spoke = <<>>
           /\ video' = video
           /\ transcripts' = transcripts ]_vars

\* prev() has run at step 0 of an active session
C17_Witness ==
  /\ HasSteps
  /\ isSessionActive
  /\ currentIndex = 0
  /\ effects.op = "handlePrev"

\* C18: a handleStart call made without a playlist, with a session active or
\* with another call in flight changes nothing; a session request is issued
\* only when none of these holds, one at a time, and a client is created only
\* by the call in flight, never more clients than requests.
C18_OneStartAtATime ==
  /\ [][ (handleStart /\ (playlist.state = "null" \/ isSessionActive \/ isStarting))
           => UNCHANGED <<negVars, connVars, reasmVars, playlist, loadingPlaylist,
                          currentIndex, isSessionActive, isStarting, sessionError,
                          transcripts, clientRef, clientListenerRef, listener,
                          startPc, video, negotiations, clients>> ]_vars
  /\ [][ negotiations' # negotiations
           => (/\ playlist.state # "null" /\ ~isSessionActive /\ ~isStarting
               /\ negotiations' = negotiations + 1) ]_vars
  /\ [][ clients' # clients
           => (isStarting /\ startPc = "session" /\ clients' = clients + 1) ]_vars
  /\ [](clients <= negotiations)

\* handleStart has been called while the connect() of an earlier call is pending
C18_Witness ==
  /\ effects.op = "handleStart"
  /\ isStarting
  /\ startPc = "connect"
  /\ negotiations = 1
  /\ clients = 1

\* a step in which the session becomes active
StartCompletes == ~isSessionActive /\ isSessionActive'

\* C19 as stated: when a start succeeds the index is 0, the connection is in
\* the connected state before the session is marked active, and step 0's line
\* is spoken once.
C19_AsStated ==
  [][ (StartCompletes /\ HasSteps)
        => /\ currentIndex' = 0
           /\ connectionState = "connected"
           /\ effects'.spoke = <<playlist.playlist[1].line>> ]_vars

\* C19: when a start succeeds the index is 0, connect() has resolved (the
\* remote answer is applied) and the client is held before the session is
\* marked active, and step 0's line is passed to speak once.
C19_StartSucceeds ==
  [][ (StartCompletes /\ HasSteps)
        => /\ currentIndex' = 0
           /\ connectPc = "resolved"
           /\ remoteDescription
           /\ clientRef' = "set"
           /\ effects'.spoke = <<playlist.playlist[1].line>> ]_vars

\* a start has succeeded while the connection is still connecting
C19_Witness ==
  /\ effects.op = "ConnectSucceeded"
  /\ isSessionActive
  /\ currentIndex = 0
  /\ effects.spoke = <<"l1">>
  /\ connectionState = "connecting"

\* what stop() is said to leave behind
Stopped ==
  /\ ~isSessionActive
  /\ currentIndex = 0
  /\ transcripts = <<>>
  /\ clientRef = "null"
  /\ pc = "null"

\* C20: from every state handleStop leaves no session, index 0, an empty
\* transcript and no live connection, and called in such a state it changes
\* nothing.
C20_StopIdempotent ==
  [][ handleStop
        => /\ Stopped'
           /\ (Stopped /\ ~video.playing /\ ~audioSrc)
                => UNCHANGED <<negVars, connVars, reasmVars, playlist,
                               loadingPlaylist, currentIndex, isSessionActive,
                               isStarting, sessionError, transcripts, clientRef,
                               clientListenerRef, listener, startPc, video,
                               negotiations, clients>> ]_vars


\* C30: the utterance buffer holds an entry for an id exactly when that id has
\* received at least one fragment and no completion signal since; the entry is
\* the fragments received since then, in arrival order; so once every utterance
\* in flight has been completed the buffer is empty
C30_BufferTracksPending ==
  /\ DOMAIN responseBuffers = {id \in Ids : HasPending(log, id)}
  /\ \A id \in DOMAIN responseBuffers : responseBuffers[id] = Pending(log, id)

\* u1 has been completed and removed while u2, begun later, is still buffered
C30_Witness ==
  /\ Len(log) = 4
  /\ log[1] = Frame("delta", "u1", <<"a">>)
  /\ log[2] = Frame("delta", "u1", <<"b">>)
  /\ log[3] = Frame("done", "u1", <<>>)
  /\ log[4] = Frame("delta", "u2", <<"a">>)
  /\ DOMAIN responseBuffers = {"u2"}


\* the step an index points to
StepAt(index) == playlist.playlist[index + 1]

\* a step that changes currentIndex to another step within an active session
IndexChangesWhileActive ==
  /\ isSessionActive
  /\ isSessionActive'
  /\ playlist.state # "null"
  /\ playlist' = playlist
  /\ currentIndex' # currentIndex
  /\ HasItem(playlist, currentIndex')

\* C24: every change of currentIndex within an active session loads the new
\* step's media exactly once and calls speak exactly once, with the line of
\* the step currentIndex now points to
C24_IndexChangeNarratesOnce ==
  [][IndexChangesWhileActive =>
       /\ effects'.loads = 1
       /\ video'.src = StepAt(currentIndex').src
       /\ effects'.spoke = <<StepAt(currentIndex').line>>]_vars

\* the second step has been reached from the first in an active session
C24_Witness ==
  /\ isSessionActive
  /\ effects.op = "handleNext"
  /\ currentIndex = 1
  /\ effects.spoke = <<"l2">>
  /\ effects.loads = 1

\* C25: when the media ends, currentIndex advances by one, clamped at the
\* last step, if a session is active, and is unchanged if none is
C25_EndedAdvancesOnlyWhenActive ==
  [][(onEnded /\ playlist.state # "null") =>
       currentIndex' = IF isSessionActive
                       THEN MathMin(currentIndex + 1, Len(playlist.playlist) - 1)
                       ELSE currentIndex]_vars

\* the media of the first step ended with no session active
C25_Witness ==
  /\ effects.op = "onEnded"
  /\ ~isSessionActive
  /\ HasSteps
  /\ currentIndex = 0
  /\ ~video.playing


(***************************************************************************)
(* The command parser (SpecParse).                                         *)
(***************************************************************************)
\* a text with every letter in lower case
Folded(s) == [i \in 1..Len(s) |-> LowerOf(s[i])]

\* piece, in lower case, occurs in s at position i in some casing, and
\* somewhere
OccursAt(s, piece, i) ==
  /\ i + Len(piece) - 1 <= Len(s)
  /\ \A j \in 1..Len(piece) : LowerOf(s[i + j - 1]) = piece[j]
Contains(s, piece) == \E i \in 1..Len(s) : OccursAt(s, piece, i)

NextMarker == <<"[", "s", "h", "o", "w", ":", "n", "e", "x", "t", "]">>
ReplayMarker == <<"[", "r", "e", "p", "l", "a", "y", "]">>
ShowOpening == <<"[", "s", "h", "o", "w", ":">>
NextKeyword == <<"n", "e", "x", "t">>

HasNextMarker(s) == Contains(s, NextMarker)
HasReplayMarker(s) == Contains(s, ReplayMarker)

\* s[i..k] is a show marker: the opening, a payload without ] that carries an
\* identifier, and the closing ]
ShowMarkerAt(s, i, k) ==
  /\ k > i + Len(ShowOpening)
  /\ k <= Len(s)
  /\ s[k] = "]"
  /\ OccursAt(s, ShowOpening, i)
  /\ \A j \in (i + Len(ShowOpening))..(k - 1) : s[j] # "]"
  /\ \E j \in (i + Len(ShowOpening))..(k - 1) : s[j] \notin Whitespace

HasShowMarker(s) == \E i, k \in 1..Len(s) : ShowMarkerAt(s, i, k)

\* the first show opening of s begins a show marker whose payload, without
\* the blanks around it, is the next-clip keyword in some casing
FirstShowMarkerSaysNext(s) ==
  \E i, k \in 1..Len(s) :
    /\ ShowMarkerAt(s, i, k)
    /\ \A j \in 1..(i - 1) : ~OccursAt(s, ShowOpening, j)
    /\ Folded(trim(SubSeq(s, i + Len(ShowOpening), k - 1))) = NextKeyword

Returned == parseResult # Unparsed

\* C27: parse returns Next for every text that contains the next-clip marker,
\* in any casing and whatever surrounds it, and Replay for every text that
\* contains the replay marker and no next-clip marker, show markers or not
C27_NextMarkerWins ==
  Returned =>
    /\ HasNextMarker(parseText) => parseResult = Command("NEXT", <<>>)
    /\ (HasReplayMarker(parseText) /\ ~HasNextMarker(parseText))
         => parseResult = Command("REPLAY", <<>>)

\* a replay marker, then a next-clip marker in mixed case, then more text
C27_Witness ==
  /\ parseText = <<"[", "r", "e", "P", "l", "a", "y", "]">>
                 \o <<"[", "s", "h", "o", "w", ":", "N", "e", "x", "t", "]">>
                 \o <<"z", "z">>
  /\ parseResult = Command("NEXT", <<>>)

\* C28: parse returns no directive for the empty text and for every text
\* that contains none of the three markers
C28_NoMarkerNoDirective ==
  (/\ Returned
   /\ ~HasNextMarker(parseText)
   /\ ~HasReplayMarker(parseText)
   /\ ~HasShowMarker(parseText)) => parseResult = NoCommand

\* a show opening closed around a blank payload names no step
C28_Witness ==
  /\ parseText = <<"[", "S", "H", "O", "W", ":", " ", "]">>
  /\ parseResult = NoCommand

\* C29: parse never returns ShowById with an id that is the next-clip keyword
\* in some casing; a show marker with such a payload gives Next (when no
\* replay marker takes precedence)
C29_ShowNextIsNext ==
  Returned =>
    /\ parseResult.action = "SHOW" => Folded(parseResult.id) # NextKeyword
    /\ (FirstShowMarkerSaysNext(parseText) /\ ~HasReplayMarker(parseText))
         => parseResult = Command("NEXT", <<>>)

\* a show marker whose payload is the keyword in mixed case between blanks,
\* which is not the next-clip marker itself
C29_Witness ==
  /\ parseText = <<"[", "s", "h", "o", "w", ":", " ", "N", "e", "X", "t", " ", "]">>
  /\ ~HasNextMarker(parseText)
  /\ parseResult = Command("NEXT", <<>>)


(***************************************************************************)
(* Directives received over the text event (SpecPlay).                     *)
(***************************************************************************)
\* the utterance a TextEvent step delivers, the directive it parses to and
\* the status entries the step logs after it
Utterance == transcripts'[Len(transcripts) + 1].text
Directive == parse(Utterance)
StatusLogged == SubSeq(transcripts', Len(transcripts) + 2, Len(transcripts'))

\* a TextEvent step in an active session on a playlist with steps
DirectiveWhileActive == TextEvent /\ isSessionActive /\ HasSteps

\* the positions of the steps whose id is the given one in some casing
StepsNamed(id) ==
  {i \in 0..LastIndex : Folded(playlist.playlist[i + 1].id) = Folded(id)}

\* a status entry whose text names the id
Names(entry, id) ==
  /\ entry.role = "system"
  /\ \E i \in 1..Len(entry.text) :
       i + Len(id) - 1 <= Len(entry.text) /\ SubSeq(entry.text, i, i + Len(id) - 1) = id

\* C21: a Next directive received in an active session advances currentIndex
\* by one and logs the advance when the step is not the last, and leaves
\* currentIndex and logs that the final step is reached when it is the last;
\* with no session active it changes nothing
C21_NextDirective ==
  [][(TextEvent /\ HasSteps /\ Directive = Command("NEXT", <<>>)) =>
       IF ~isSessionActive
       THEN currentIndex' = currentIndex /\ StatusLogged = <<>>
       ELSE IF currentIndex < LastIndex
       THEN /\ currentIndex' = currentIndex + 1
            /\ StatusLogged = <<System(<<"Advancing to the next clip as requested.">>)>>
       ELSE /\ currentIndex' = currentIndex
            /\ StatusLogged = <<System(<<"Already at the final clip.">>)>>]_vars

\* C22: a ShowById directive received in an active session whose id is no
\* step's id in any casing leaves currentIndex, loads no media, speaks no
\* line and logs exactly one status entry that names the id
C22_ShowUnknownId ==
  [][(DirectiveWhileActive /\ Directive.action = "SHOW"
        /\ StepsNamed(Directive.id) = {}) =>
       /\ currentIndex' = currentIndex
       /\ effects'.loads = 0
       /\ effects'.spoke = <<>>
       /\ Len(StatusLogged) = 1
       /\ Names(StatusLogged[1], Directive.id)]_vars

\* C23: a ShowById directive received in an active session whose id is a
\* step's id in some casing sets currentIndex to the position of the first
\* such step, whatever the index was, and logs the switch
C23_ShowKnownId ==
  [][(DirectiveWhileActive /\ Directive.action = "SHOW"
        /\ StepsNamed(Directive.id) # {}) =>
       /\ \A i \in StepsNamed(Directive.id) : currentIndex' <= i
       /\ currentIndex' \in StepsNamed(Directive.id)
       /\ Len(StatusLogged) = 1
       /\ StatusLogged[1].role = "system"]_vars

\* C26: in a started session each Next directive received before the last
\* step moves one step on, so the last step is reached, and a Replay
\* directive received there leaves currentIndex at the last step and has its
\* line spoken exactly once
C26_NextThenReplay ==
  [][DirectiveWhileActive =>
       /\ (Directive = Command("NEXT", <<>>) /\ currentIndex < LastIndex)
            => currentIndex' = currentIndex + 1
       /\ (Directive = Command("REPLAY", <<>>) /\ currentIndex = LastIndex)
            => /\ currentIndex' = LastIndex
               /\ effects'.spoke = <<playlist.playlist[LastIndex + 1].line>>]_vars


\* C31: replay() never changes currentIndex; in an active session it has the
\* line of the current step spoken exactly once, and with no session active
\* it has nothing spoken
C31_ReplayKeepsIndex ==
  [][handleReplay =>
       /\ currentIndex' = currentIndex
       /\ effects'.loads = 0
       /\ effects'.spoke = IF isSessionActive /\ HasItem(playlist, currentIndex)
                           THEN <<StepAt(currentIndex).line>>
                           ELSE <<>>]_vars

\* the second step has been replayed in an active session
C31_Witness ==
  /\ effects.op = "handleReplay"
  /\ isSessionActive
  /\ currentIndex = 1
  /\ effects.spoke = <<"l2">>
  /\ video.playing


(***************************************************************************)
(* close() and failures while a call is pending (SpecConn).                *)
(***************************************************************************)
\* connect() is between two of its awaits, and a step in which it settles
ConnectPending ==
  connectPc \in {"getUserMedia", "createOffer", "setLocalDescription", "fetch",
                 "setRemoteDescription"}
ConnectSettles == ConnectPending /\ connectPc' \in {"resolved", "rejected"}

\* C32: when close() was called while connect() was pending, then once the
\* connect has settled the state is closed, no capture track is live, and no
\* transport or control channel is open
C32_CloseDuringConnect ==
  [][(CloseCalled /\ ConnectSettles) => Released']_vars


\* the transport has reported a failure
TransportFailed == pcState \in {"failed", "disconnected"}

\* C33: a speak() call suspended on the ready promise settles once close()
\* has been called or the transport has failed
C33_SuspendedSpeakSettles ==
  (speakPc = "waiting" /\ (CloseCalled \/ TransportFailed)) ~> (speakPc # "waiting")


(***************************************************************************)
(* Starts that are stopped or fail (SpecHandlers).                         *)
(***************************************************************************)
\* a handleStart call is in flight, and a step in which it finishes
StartInFlight == startPc # "none"
StartFinishes == StartInFlight /\ startPc' = "none"

\* handleStop was the last handler to run, so within a start in flight it
\* ran after that start was called
StoppedLast == effects.op = "handleStop"

\* C34: when stop() was called while a start() was in flight, then after the
\* start has finished the session is not active and no client is held
C34_StopDuringStart ==
  [][(StoppedLast /\ StartFinishes) =>
       /\ ~isSessionActive'
       /\ clientRef' = "null"]_vars


\* a step in which a handleStart call fails: the session request failed or
\* answered with an error, or connect() rejected
StartFails == SessionFailed \/ ConnectFailed

\* C35: when a start fails the session stays inactive, currentIndex and the
\* transcript are as they were, an error is recorded, no client is held, and
\* the in-progress flag is cleared, so that the next start is accepted
C35_FailedStart ==
  [][StartFails =>
       /\ ~isSessionActive'
       /\ currentIndex' = currentIndex
       /\ transcripts' = transcripts
       /\ sessionError'
       /\ clientRef' = "null"
       /\ ~isStarting'
       /\ StartAccepted']_vars

\* a start has failed at connect() and the next one would be accepted
C35_Witness ==
  /\ effects.op = "ConnectFailed"
  /\ clients = 1
  /\ sessionError
  /\ ~isStarting
  /\ ~isSessionActive
  /\ clientRef = "null"
  /\ StartAccepted


\* C36: currentIndex is never negative, also when the playlist loaded has no
\* step: next, prev and the end of the media leave it at 0 there
C36_IndexNeverNegative == currentIndex >= 0


(***************************************************************************)
(* Exceptions during negotiation (SpecNeg).                                *)
(***************************************************************************)
\* C37: a handshake request that raises an exception is the last request of
\* the negotiation and is answered with one 500 response; and on every path
\* the request has no response while it is handled and exactly one when done
C37_ExceptionStops ==
  /\ Len(responses) = IF handler = "done" THEN 1 ELSE 0
  /\ \A i \in 1..Len(calls) :
       calls[i].outcome = "throw" =>
         /\ i = Len(calls)
         /\ handler = "done"
         /\ responses[1].status = 500

\* the second candidate's request raised after the first failed with a
\* status that allows a retry, and a third candidate was left untried
C37_Witness ==
  /\ Len(DEFAULT_REALTIME_MODELS) >= 3
  /\ Len(calls) = 2
  /\ calls[1].outcome = "fail"
  /\ calls[2].outcome = "throw"
  /\ handler = "done"
  /\ Len(responses) = 1

=============================================================================
